---------------------------- MODULE Spec2Model ----------------------------
(***************************************************************************)
(* Model of the mx3 crate: the bit mixers, the one-shot hashes, the        *)
(* counter-based generators and the two streaming hashers.                 *)
(*                                                                         *)
(* A u64 is a tuple of 8 bytes, most significant byte first, so that a     *)
(* word reads like its hexadecimal literal: 0xbea225f9eb34556d is          *)
(* <<190,162,37,249,235,52,85,109>>.  All arithmetic is carried out on     *)
(* the bytes, exactly modulo 2^64.                                         *)
(***************************************************************************)
EXTENDS Integers, Sequences, FiniteSets, TLC

(***************************************************************************)
(* 64-bit words.  The operations are defined on 8-byte words only; each    *)
(* states that as the guard of its CASE.                                   *)
(***************************************************************************)

\* Limb i of w, i = 0 the least significant byte.
Limb(w, i) == IF i > 7 THEN 0 ELSE w[8 - i]

\* The word whose limbs, least significant first, are le.
BigEndian(le) == <<le[8], le[7], le[6], le[5], le[4], le[3], le[2], le[1]>>

\* x ^ y of two 4-bit values, at [x + 1][y + 1]
XorNibble ==
  <<<< 0,  1,  2,  3,  4,  5,  6,  7,  8,  9, 10, 11, 12, 13, 14, 15>>,
    << 1,  0,  3,  2,  5,  4,  7,  6,  9,  8, 11, 10, 13, 12, 15, 14>>,
    << 2,  3,  0,  1,  6,  7,  4,  5, 10, 11,  8,  9, 14, 15, 12, 13>>,
    << 3,  2,  1,  0,  7,  6,  5,  4, 11, 10,  9,  8, 15, 14, 13, 12>>,
    << 4,  5,  6,  7,  0,  1,  2,  3, 12, 13, 14, 15,  8,  9, 10, 11>>,
    << 5,  4,  7,  6,  1,  0,  3,  2, 13, 12, 15, 14,  9,  8, 11, 10>>,
    << 6,  7,  4,  5,  2,  3,  0,  1, 14, 15, 12, 13, 10, 11,  8,  9>>,
    << 7,  6,  5,  4,  3,  2,  1,  0, 15, 14, 13, 12, 11, 10,  9,  8>>,
    << 8,  9, 10, 11, 12, 13, 14, 15,  0,  1,  2,  3,  4,  5,  6,  7>>,
    << 9,  8, 11, 10, 13, 12, 15, 14,  1,  0,  3,  2,  5,  4,  7,  6>>,
    <<10, 11,  8,  9, 14, 15, 12, 13,  2,  3,  0,  1,  6,  7,  4,  5>>,
    <<11, 10,  9,  8, 15, 14, 13, 12,  3,  2,  1,  0,  7,  6,  5,  4>>,
    <<12, 13, 14, 15,  8,  9, 10, 11,  4,  5,  6,  7,  0,  1,  2,  3>>,
    <<13, 12, 15, 14,  9,  8, 11, 10,  5,  4,  7,  6,  1,  0,  3,  2>>,
    <<14, 15, 12, 13, 10, 11,  8,  9,  6,  7,  4,  5,  2,  3,  0,  1>>,
    <<15, 14, 13, 12, 11, 10,  9,  8,  7,  6,  5,  4,  3,  2,  1,  0>>>>

\* x | y of two 4-bit values, at [x + 1][y + 1]
OrNibble ==
  <<<< 0,  1,  2,  3,  4,  5,  6,  7,  8,  9, 10, 11, 12, 13, 14, 15>>,
    << 1,  1,  3,  3,  5,  5,  7,  7,  9,  9, 11, 11, 13, 13, 15, 15>>,
    << 2,  3,  2,  3,  6,  7,  6,  7, 10, 11, 10, 11, 14, 15, 14, 15>>,
    << 3,  3,  3,  3,  7,  7,  7,  7, 11, 11, 11, 11, 15, 15, 15, 15>>,
    << 4,  5,  6,  7,  4,  5,  6,  7, 12, 13, 14, 15, 12, 13, 14, 15>>,
    << 5,  5,  7,  7,  5,  5,  7,  7, 13, 13, 15, 15, 13, 13, 15, 15>>,
    << 6,  7,  6,  7,  6,  7,  6,  7, 14, 15, 14, 15, 14, 15, 14, 15>>,
    << 7,  7,  7,  7,  7,  7,  7,  7, 15, 15, 15, 15, 15, 15, 15, 15>>,
    << 8,  9, 10, 11, 12, 13, 14, 15,  8,  9, 10, 11, 12, 13, 14, 15>>,
    << 9,  9, 11, 11, 13, 13, 15, 15,  9,  9, 11, 11, 13, 13, 15, 15>>,
    <<10, 11, 10, 11, 14, 15, 14, 15, 10, 11, 10, 11, 14, 15, 14, 15>>,
    <<11, 11, 11, 11, 15, 15, 15, 15, 11, 11, 11, 11, 15, 15, 15, 15>>,
    <<12, 13, 14, 15, 12, 13, 14, 15, 12, 13, 14, 15, 12, 13, 14, 15>>,
    <<13, 13, 15, 15, 13, 13, 15, 15, 13, 13, 15, 15, 13, 13, 15, 15>>,
    <<14, 15, 14, 15, 14, 15, 14, 15, 14, 15, 14, 15, 14, 15, 14, 15>>,
    <<15, 15, 15, 15, 15, 15, 15, 15, 15, 15, 15, 15, 15, 15, 15, 15>>>>

\* A bitwise operation on two bytes, nibble by nibble, from its table t
Bitwise(t, x, y) ==
  16 * t[(x \div 16) + 1][(y \div 16) + 1] + t[(x % 16) + 1][(y % 16) + 1]

\* Limbs i..7 of the bitwise operation with table t on a and b, least
\* significant first.
RECURSIVE BitwiseLimbs(_, _, _, _)
BitwiseLimbs(t, a, b, i) ==
  IF i = 8 THEN <<>>
  ELSE <<Bitwise(t, a[8 - i], b[8 - i])>> \o BitwiseLimbs(t, a, b, i + 1)

\* u64 ^ u64
Xor(a, b) == CASE Len(a) = 8 /\ Len(b) = 8 -> BigEndian(BitwiseLimbs(XorNibble, a, b, 0))

\* u64 | u64
Or(a, b) == CASE Len(a) = 8 /\ Len(b) = 8 -> BigEndian(BitwiseLimbs(OrNibble, a, b, 0))

\* Limb k of w >> r for 0 <= r < 8: the high bits of limb k and the low bits
\* of limb k + 1.
ShrBits(w, k, r) ==
  (Limb(w, k) \div 2^r) + (Limb(w, k + 1) % 2^r) * 2^(8 - r)

\* Limbs i..7 of w >> s, least significant first.
RECURSIVE ShrLimbs(_, _, _)
ShrLimbs(w, s, i) ==
  IF i = 8 THEN <<>>
  ELSE <<ShrBits(w, i + (s \div 8), s % 8)>> \o ShrLimbs(w, s, i + 1)

\* u64 >> s, 0 <= s < 64
Shr(w, s) == CASE Len(w) = 8 /\ s \in 0..63 -> BigEndian(ShrLimbs(w, s, 0))

\* Limbs i..7 of w << s, s a multiple of 8, least significant first.
RECURSIVE ShlLimbs(_, _, _)
ShlLimbs(w, s, i) ==
  IF i = 8 THEN <<>>
  ELSE <<IF i >= s \div 8 THEN Limb(w, i - (s \div 8)) ELSE 0>> \o ShlLimbs(w, s, i + 1)

\* u64 << s, s a multiple of 8 (the only left shifts of the crate: tail packing)
Shl(w, s) == CASE Len(w) = 8 /\ s \in 0..63 -> BigEndian(ShlLimbs(w, s, 0))

\* Limbs i..7 of a + b, least significant first; sum is limb i's sum with
\* the carry into it.
RECURSIVE AddLimbs(_, _, _, _)
AddLimbs(a, b, i, sum) ==
  IF i = 7 THEN <<sum % 256>>
  ELSE <<sum % 256>> \o AddLimbs(a, b, i + 1, a[7 - i] + b[7 - i] + (sum \div 256))

\* u64::wrapping_add: byte-wise sums with carry; the carry out of the top byte
\* is dropped.
wrapping_add(a, b) ==
  CASE Len(a) = 8 /\ Len(b) = 8 -> BigEndian(AddLimbs(a, b, 0, a[8] + b[8]))

\* Column k of the schoolbook product: the sum of the a_i * b_(k-i), where
\* limb i of a word w is w[8 - i].
Column(a, b, k) ==
  CASE k = 0 -> a[8] * b[8]
    [] k = 1 -> a[8] * b[7] + a[7] * b[8]
    [] k = 2 -> a[8] * b[6] + a[7] * b[7] + a[6] * b[8]
    [] k = 3 -> a[8] * b[5] + a[7] * b[6] + a[6] * b[7] + a[5] * b[8]
    [] k = 4 -> a[8] * b[4] + a[7] * b[5] + a[6] * b[6] + a[5] * b[7] + a[4] * b[8]
    [] k = 5 -> a[8] * b[3] + a[7] * b[4] + a[6] * b[5] + a[5] * b[6] + a[4] * b[7] + a[3] * b[8]
    [] k = 6 -> a[8] * b[2] + a[7] * b[3] + a[6] * b[4] + a[5] * b[5] + a[4] * b[6] + a[3] * b[7] + a[2] * b[8]
    [] k = 7 -> a[8] * b[1] + a[7] * b[2] + a[6] * b[3] + a[5] * b[4] + a[4] * b[5] + a[3] * b[6] + a[2] * b[7] + a[1] * b[8]

\* Limbs k..7 of a * b, least significant first; sum is column k with the
\* carry into it.
RECURSIVE MulLimbs(_, _, _, _)
MulLimbs(a, b, k, sum) ==
  IF k = 7 THEN <<sum % 256>>
  ELSE <<sum % 256>> \o MulLimbs(a, b, k + 1, Column(a, b, k + 1) + (sum \div 256))

\* u64::wrapping_mul: schoolbook columns with carry; columns 8 and above are
\* dropped.
wrapping_mul(a, b) ==
  CASE Len(a) = 8 /\ Len(b) = 8 -> BigEndian(MulLimbs(a, b, 0, Column(a, b, 0)))

\* `n as u64` for a usize or u8 n that fits 31 bits
AsU64(n) ==
  <<0, 0, 0, 0, (n \div 16777216) % 256, (n \div 65536) % 256, (n \div 256) % 256, n % 256>>

\* `x as u32`: the low 32 bits, as 4 bytes
AsU32(w) == <<w[5], w[6], w[7], w[8]>>

\* u64::from_le_bytes: the first byte of the array is the least significant
from_le_bytes(bs) == <<bs[8], bs[7], bs[6], bs[5], bs[4], bs[3], bs[2], bs[1]>>

\* x ^ (x >> s), the xor-shift step of the mixers
XorShr(x, s) == Xor(x, Shr(x, s))

\* x ^ (x >> s) ^ (x >> t), the step of the v1 and v2 stream mixers
XorShr2(x, s, t) == Xor(x, Xor(Shr(x, s), Shr(x, t)))

PARAMETER_C == <<190, 162, 37, 249, 235, 52, 85, 109>>

(***************************************************************************)
(* v1                                                                      *)
(***************************************************************************)

V1Mix(x0) ==
  XorShr(wrapping_mul(
    XorShr(wrapping_mul(
      XorShr(wrapping_mul(x0, PARAMETER_C), 33),
      PARAMETER_C), 29),
    PARAMETER_C), 39)

V1MixStream(h0, x0) ==
  wrapping_mul(
    wrapping_add(h0,
      wrapping_mul(XorShr2(wrapping_mul(x0, PARAMETER_C), 57, 33), PARAMETER_C)),
    PARAMETER_C)

\* remain[i] as u64, shifted left by s bits; i is the 0-based index of the code
ByteAt(bs, i, s) == Shl(AsU64(bs[i + 1]), s)

Zero64 == AsU64(0)

\* `if c { last_int |= b }`
OrIf(c, last_int, b) == IF c THEN Or(last_int, b) ELSE last_int

\* The conditional-or cascade that packs the 0..7 trailing bytes (v1.rs 52-70,
\* v2.rs 53-71); the result excludes remain[0], which the caller ors in.
LastInt(tail) ==
  OrIf(Len(tail) >= 2,
    OrIf(Len(tail) >= 3,
      OrIf(Len(tail) >= 4,
        OrIf(Len(tail) >= 5,
          OrIf(Len(tail) >= 6,
            OrIf(Len(tail) >= 7, Zero64, ByteAt(tail, 6, 48)),
            ByteAt(tail, 5, 40)),
          ByteAt(tail, 4, 32)),
        ByteAt(tail, 3, 24)),
      ByteAt(tail, 2, 16)),
    ByteAt(tail, 1, 8))

\* while remain.len() >= 8 { ... } of v1::hash, on or = <<output, remain>>
RECURSIVE V1HashLoop(_)
V1HashLoop(or) ==
  IF Len(or[2]) >= 8
  THEN V1HashLoop(<<V1MixStream(or[1], from_le_bytes(SubSeq(or[2], 1, 8))),
                    SubSeq(or[2], 9, Len(or[2]))>>)
  ELSE or

\* The tail of v1::hash, on or = <<output, remain>> as the loop leaves them
V1HashTail(or) ==
  V1Mix(IF Len(or[2]) # 0
        THEN V1MixStream(or[1], Or(LastInt(or[2]), AsU64(or[2][1])))
        ELSE or[1])

V1Hash(buffer, seed) ==
  V1HashTail(V1HashLoop(<<Xor(seed, AsU64(Len(buffer))), buffer>>))

(***************************************************************************)
(* v2                                                                      *)
(***************************************************************************)

\* v2's mix with the steps of v1's
V2MixAsV1(x0) == V1Mix(x0)

V2Mix(x0) ==
  XorShr(wrapping_mul(
    XorShr(wrapping_mul(
      XorShr(wrapping_mul(XorShr(x0, 32), PARAMETER_C), 29),
      PARAMETER_C), 32),
    PARAMETER_C), 29)

V2MixStream(h0, x0) ==
  wrapping_mul(
    wrapping_add(h0,
      wrapping_mul(XorShr2(wrapping_mul(x0, PARAMETER_C), 57, 43), PARAMETER_C)),
    PARAMETER_C)

\* while remain.len() >= 8 { ... } of v2::hash, on or = <<output, remain>>
RECURSIVE V2HashLoop(_)
V2HashLoop(or) ==
  IF Len(or[2]) >= 8
  THEN V2HashLoop(<<V2MixStream(or[1], from_le_bytes(SubSeq(or[2], 1, 8))),
                    SubSeq(or[2], 9, Len(or[2]))>>)
  ELSE or

\* The tail of v2::hash, on or = <<output, remain>> as the loop leaves them
V2HashTail(or) ==
  V2Mix(IF Len(or[2]) # 0
        THEN V2MixStream(or[1], Or(LastInt(or[2]), AsU64(or[2][1])))
        ELSE or[1])

V2Hash(buffer, seed) ==
  V2HashTail(V2HashLoop(<<Xor(seed, AsU64(Len(buffer))), buffer>>))

(***************************************************************************)
(* v3                                                                      *)
(***************************************************************************)

V3Mix(x0) ==
  XorShr(wrapping_mul(
    XorShr(wrapping_mul(
      XorShr(wrapping_mul(XorShr(x0, 32), PARAMETER_C), 29),
      PARAMETER_C), 32),
    PARAMETER_C), 29)

mix_stream_2(h0, x0) ==
  wrapping_mul(
    wrapping_add(h0,
      wrapping_mul(XorShr(wrapping_mul(x0, PARAMETER_C), 39), PARAMETER_C)),
    PARAMETER_C)

\* Four lanes folded with the first two in the other order
mix_stream_5_swapped(h0, a0, b0, c0, d0) ==
  mix_stream_2(mix_stream_2(mix_stream_2(mix_stream_2(h0, b0), a0), c0), d0)

mix_stream_5(h0, a0, b0, c0, d0) ==
  wrapping_mul(wrapping_add(
    wrapping_mul(wrapping_add(
      wrapping_mul(wrapping_add(
        wrapping_mul(wrapping_add(
          h0,
          wrapping_mul(XorShr(wrapping_mul(a0, PARAMETER_C), 39), PARAMETER_C)),
          PARAMETER_C),
        wrapping_mul(XorShr(wrapping_mul(b0, PARAMETER_C), 39), PARAMETER_C)),
        PARAMETER_C),
      wrapping_mul(XorShr(wrapping_mul(c0, PARAMETER_C), 39), PARAMETER_C)),
      PARAMETER_C),
    wrapping_mul(XorShr(wrapping_mul(d0, PARAMETER_C), 39), PARAMETER_C)),
    PARAMETER_C)

\* value_ints[k] of a 64-byte block `left` (v3.rs 68-75), k 0-based
ValueInt(left, k) == from_le_bytes(SubSeq(left, 8 * k + 1, 8 * k + 8))

\* The two mix_stream_5 calls on one 64-byte block
V3Block(output, left) ==
  mix_stream_5(
    mix_stream_5(output, ValueInt(left, 0), ValueInt(left, 1),
                 ValueInt(left, 2), ValueInt(left, 3)),
    ValueInt(left, 4), ValueInt(left, 5), ValueInt(left, 6), ValueInt(left, 7))

\* while remain.len() >= 64 { ... } of v3::hash, on or = <<output, remain>>
RECURSIVE V3BlockLoop(_)
V3BlockLoop(or) ==
  IF Len(or[2]) >= 64
  THEN V3BlockLoop(<<V3Block(or[1], SubSeq(or[2], 1, 64)),
                     SubSeq(or[2], 65, Len(or[2]))>>)
  ELSE or

\* while remain.len() >= 8 { ... } of v3::hash, on or = <<output, remain>>
RECURSIVE V3WordLoop(_)
V3WordLoop(or) ==
  IF Len(or[2]) >= 8
  THEN V3WordLoop(<<mix_stream_2(or[1], from_le_bytes(SubSeq(or[2], 1, 8))),
                    SubSeq(or[2], 9, Len(or[2]))>>)
  ELSE or

\* (remain[n-1] as u64) << 8(n-1) | ... | remain[0] as u64, or-ed from the
\* left as the arms of the match write it; acc holds the bytes above index k.
RECURSIVE V3Pack(_, _, _)
RECURSIVE V3PackShiftedUp(_, _, _)

\* The packing that starts from the lowest byte and puts byte i at bits
\* 8(i+1)..8(i+1)+7
V3PackShiftedUp(remain, k, acc) ==
  IF k = 0 THEN acc
  ELSE V3PackShiftedUp(remain, k - 1, Or(acc, ByteAt(remain, k - 1, 8 * k)))

V3Pack(remain, k, acc) ==
  IF k = 0 THEN acc
  ELSE V3Pack(remain, k - 1, Or(acc, ByteAt(remain, k - 1, 8 * (k - 1))))

\* What v3::hash yields when it panics in the `_ => unreachable!()` arm: no word
Unreachable == << >>

\* The match on remain.len() of v3::hash, on or = <<output, remain>> as the
\* loops leave them.
V3Tail(or) ==
  CASE Len(or[2]) = 0 -> V3Mix(or[1])
    [] Len(or[2]) \in 1..7 ->
         V3Mix(mix_stream_2(or[1],
           V3Pack(or[2], Len(or[2]) - 1,
                  ByteAt(or[2], Len(or[2]) - 1, 8 * (Len(or[2]) - 1)))))
    [] OTHER -> Unreachable

V3Hash(buffer, seed) ==
  V3Tail(V3WordLoop(V3BlockLoop(
    <<mix_stream_2(seed, wrapping_add(AsU64(Len(buffer)), AsU64(1))), buffer>>)))

(***************************************************************************)
(* Crate root (lib.rs): mix, Cursor and the word-aligned streaming hasher  *)
(***************************************************************************)

LibMix(x0) ==
  XorShr(wrapping_mul(
    XorShr(wrapping_mul(
      XorShr(wrapping_mul(XorShr(x0, 32), PARAMETER_C), 29),
      PARAMETER_C), 32),
    PARAMETER_C), 29)

LibMixStream(h0, x0) ==
  wrapping_mul(
    wrapping_add(h0,
      wrapping_mul(XorShr2(wrapping_mul(x0, PARAMETER_C), 57, 43), PARAMETER_C)),
    PARAMETER_C)

NoPanic == ""

\* The first panic of a call is the one that unwinds it.
FirstPanic(p, q) == IF p # NoPanic THEN p ELSE q

CursorNew(data) == [data |-> data, position |-> 0]

\* The for loop of Cursor::read, on lp = [cursor, dest_buffer, dest_index, bytes_read]
RECURSIVE CursorReadLoop(_)
CursorReadLoop(lp) ==
  IF lp.dest_index < Len(lp.dest_buffer) /\ lp.cursor.position < Len(lp.cursor.data)
  THEN CursorReadLoop(
         [cursor      |-> [lp.cursor EXCEPT !.position = @ + 1],
          dest_buffer |-> [lp.dest_buffer EXCEPT ![lp.dest_index + 1] =
                             lp.cursor.data[lp.cursor.position + 1]],
          dest_index  |-> lp.dest_index + 1,
          bytes_read  |-> lp.bytes_read + 1])
  ELSE lp

\* Cursor::read: yields the cursor, the destination and the count
CursorRead(cursor, dest_buffer) ==
  CursorReadLoop([cursor |-> cursor, dest_buffer |-> dest_buffer,
                  dest_index |-> 0, bytes_read |-> 0])

\* The match of Cursor::read_exact on what read() yielded: ok is FALSE for
\* Err(bytes_read)
CursorExact(rd, len) ==
  [cursor |-> rd.cursor, dest_buffer |-> rd.dest_buffer, ok |-> (rd.bytes_read = len)]

\* Cursor::read_exact
CursorReadExact(cursor, dest_buffer) ==
  CursorExact(CursorRead(cursor, dest_buffer), Len(dest_buffer))

ZeroBytes8 == <<0, 0, 0, 0, 0, 0, 0, 0>>

LibNew(seed) ==
  [state |-> seed, partial_int_buffer |-> ZeroBytes8, partial_int_buffer_len |-> 0]

\* new_with_length without the length in the seed
LibNewIgnoringLength(seed, buffer_len) == LibNew(seed)

LibNewWithLength(seed, buffer_len) == LibNew(Xor(seed, AsU64(buffer_len)))

\* lib.rs 168-171: what write_into_partial_int_buffer does with the result rd
\* of bytes.read()
PartialIntBufferFilled(self, rd) ==
  [self |-> [self EXCEPT
               !.partial_int_buffer =
                  SubSeq(@, 1, self.partial_int_buffer_len) \o rd.dest_buffer,
               !.partial_int_buffer_len = @ + rd.bytes_read],
   cursor |-> rd.cursor,
   bytes_read |-> rd.bytes_read,
   panic |-> IF self.partial_int_buffer_len + rd.bytes_read <= 8 THEN NoPanic
             ELSE "assertion failed: partial_int_buffer_len <= 8"]

\* A variant that reads into the whole of partial_int_buffer instead of
\* the part from partial_int_buffer_len on: it loses the pending bytes.
WriteIntoPartialIntBufferFromStart(self, cursor) ==
  PartialIntBufferFilled([self EXCEPT !.partial_int_buffer_len = 0],
                         CursorRead(cursor, self.partial_int_buffer))

\* Mx3Hasher::write_into_partial_int_buffer
WriteIntoPartialIntBuffer(self, cursor) ==
  IF self.partial_int_buffer_len > 8
  THEN [self |-> self, cursor |-> cursor, bytes_read |-> 0,
        panic |-> "range start index out of range"]
  ELSE PartialIntBufferFilled(self,
         CursorRead(cursor,
           SubSeq(self.partial_int_buffer, self.partial_int_buffer_len + 1, 8)))

\* apply_partial_int_buffer without its last line
ApplyPartialIntBufferKeepingLen(self) ==
  [self |-> [self EXCEPT
               !.state = LibMixStream(@, from_le_bytes(self.partial_int_buffer))],
   panic |-> IF self.partial_int_buffer_len = 8 THEN NoPanic
             ELSE "assertion failed: partial_int_buffer_len == 8"]

\* Mx3Hasher::apply_partial_int_buffer
ApplyPartialIntBuffer(self) ==
  [self |-> [self EXCEPT
               !.state = LibMixStream(@, from_le_bytes(self.partial_int_buffer)),
               !.partial_int_buffer_len = 0],
   panic |-> IF self.partial_int_buffer_len = 8 THEN NoPanic
             ELSE "assertion failed: partial_int_buffer_len == 8"]

\* The local state of a write() call: the hasher, the cursor, bytes_remaining,
\* whether the call has returned, and the panic that ended it, if any.
LibWriteEnter(self, bytes) ==
  [self |-> self, cursor |-> CursorNew(bytes), bytes_remaining |-> Len(bytes),
   returned |-> FALSE, panic |-> NoPanic]

\* lib.rs 194: self.apply_partial_int_buffer(), with ap what it yields
LibWriteApplied(fr, ap) ==
  [fr EXCEPT !.self = ap.self, !.panic = ap.panic, !.returned = (ap.panic # NoPanic)]

\* lib.rs 191-198: after write_into_partial_int_buffer yielded w
LibWriteToppedUp(fr, w) ==
  IF w.panic # NoPanic \/ fr.bytes_remaining - w.bytes_read < 0
  THEN [fr EXCEPT !.self = w.self, !.cursor = w.cursor, !.returned = TRUE,
                  !.panic = FirstPanic(w.panic, "attempt to subtract with overflow")]
  ELSE IF w.self.partial_int_buffer_len = 8
  THEN LibWriteApplied(
         [fr EXCEPT !.cursor = w.cursor, !.bytes_remaining = @ - w.bytes_read],
         ApplyPartialIntBuffer(w.self))
  ELSE [fr EXCEPT !.self = w.self, !.cursor = w.cursor,
                  !.bytes_remaining = @ - w.bytes_read, !.returned = TRUE,
                  !.panic = IF fr.bytes_remaining - w.bytes_read < 8 THEN NoPanic
                            ELSE "assertion failed: bytes_remaining < 8"]

\* lib.rs 189-199: top up a pending remainder first
LibWriteTopUp(fr) ==
  IF fr.self.partial_int_buffer_len > 0
  THEN LibWriteToppedUp(fr, WriteIntoPartialIntBuffer(fr.self, fr.cursor))
  ELSE fr

\* A turn of the loop that takes the 8 bytes as a big-endian word
LibWriteWordBigEndian(fr, rd) ==
  IF rd.ok
  THEN [fr EXCEPT !.bytes_remaining = @ - 8,
                  !.cursor = rd.cursor,
                  !.self.state = LibMixStream(@, rd.dest_buffer)]
  ELSE [fr EXCEPT !.bytes_remaining = @ - 8, !.cursor = rd.cursor,
                  !.returned = TRUE,
                  !.panic = "called Result::unwrap() on an Err value"]

\* lib.rs 202-208: one turn of the loop, with rd what read_exact yielded
LibWriteWord(fr, rd) ==
  IF rd.ok
  THEN [fr EXCEPT !.bytes_remaining = @ - 8,
                  !.cursor = rd.cursor,
                  !.self.state = LibMixStream(@, from_le_bytes(rd.dest_buffer))]
  ELSE [fr EXCEPT !.bytes_remaining = @ - 8, !.cursor = rd.cursor,
                  !.returned = TRUE,
                  !.panic = "called Result::unwrap() on an Err value"]

\* lib.rs 201-209: while bytes_remaining >= 8 { ... }
RECURSIVE LibWriteWords(_)
LibWriteWords(fr) ==
  IF fr.bytes_remaining >= 8 /\ ~fr.returned
  THEN LibWriteWords(LibWriteWord(fr, CursorReadExact(fr.cursor, ZeroBytes8)))
  ELSE fr

\* lib.rs 212-214: after write_into_partial_int_buffer yielded w
LibWriteRested(fr, w) ==
  [fr EXCEPT !.self = w.self, !.cursor = w.cursor,
             !.bytes_remaining = @ - w.bytes_read,
             !.returned = TRUE,
             !.panic = IF w.panic # NoPanic THEN w.panic
                       ELSE IF fr.bytes_remaining - w.bytes_read < 0
                            THEN "attempt to subtract with overflow"
                       ELSE IF ~(w.bytes_read < 8)
                            THEN "assertion failed: bytes_processed < 8"
                       ELSE IF fr.bytes_remaining - w.bytes_read # 0
                            THEN "assertion failed: bytes_remaining == 0"
                       ELSE NoPanic]

\* lib.rs 211-214: what is left becomes the pending remainder
LibWriteRest(fr) ==
  IF fr.returned THEN fr
  ELSE LibWriteRested(fr, WriteIntoPartialIntBuffer(fr.self, fr.cursor))

\* Hasher::write of the crate root's Mx3Hasher: the call's final local state.
\* Each stage passes a call that has returned (or panicked) through.
LibWrite(self, bytes) ==
  LibWriteRest(LibWriteWords(LibWriteTopUp(LibWriteEnter(self, bytes))))

\* lib.rs 220-243: the tail word of the pending remainder, before byte 0 is or-ed in
LibLastInt(buffer, n) ==
  OrIf(n >= 2,
    OrIf(n >= 3,
      OrIf(n >= 4,
        OrIf(n >= 5,
          OrIf(n >= 6,
            OrIf(n >= 7, Zero64, ByteAt(buffer, 6, 48)),
            ByteAt(buffer, 5, 40)),
          ByteAt(buffer, 4, 32)),
        ByteAt(buffer, 3, 24)),
      ByteAt(buffer, 2, 16)),
    ByteAt(buffer, 1, 8))

\* Hasher::finish of the crate root's Mx3Hasher (&self): the hasher after the
\* call, the value returned, and the panic, if any
LibFinish(self) ==
  [self |-> self,
   ret  |-> LibMix(IF self.partial_int_buffer_len >= 1
                   THEN LibMixStream(self.state,
                          Or(LibLastInt(self.partial_int_buffer,
                                        self.partial_int_buffer_len),
                             AsU64(self.partial_int_buffer[1])))
                   ELSE self.state),
   panic |-> IF self.partial_int_buffer_len < 8 THEN NoPanic
             ELSE "assertion failed: partial_int_buffer_len < 8"]

\* pub fn hash of the crate root
LibHash(buffer, seed) ==
  LibFinish(LibWrite(LibNewWithLength(seed, Len(buffer)), buffer).self).ret

(***************************************************************************)
(* Mx3Rng of v1, v2, v3 and the crate root.  A generator is                *)
(* [rev, counter]; rev names the module its code comes from.               *)
(***************************************************************************)

Revisions == {"v1", "v2", "v3", "lib"}

\* mix of the generator's own module
RngMix(rev, x0) ==
  CASE rev = "v1"  -> V1Mix(x0)
    [] rev = "v2"  -> V2Mix(x0)
    [] rev = "v3"  -> V3Mix(x0)
    [] rev = "lib" -> LibMix(x0)

\* new() that takes the seed as the counter in every revision
RngNewRaw(rev, seed) == [rev |-> rev, counter |-> seed]

\* Mx3Rng::new: v3 mixes the seed, the others take it as the counter
RngNew(rev, seed) ==
  IF rev = "v3"
  THEN [rev |-> rev, counter |-> V3Mix(wrapping_add(seed, PARAMETER_C))]
  ELSE [rev |-> rev, counter |-> seed]

\* v3's Mx3Rng::resume
V3Resume(state) == [rev |-> "v3", counter |-> state]

\* Mx3Rng::state
RngState(self) == self.counter

\* next_u64 with the counter advanced before it is mixed
RngNextU64PreIncrement(self) ==
  [self |-> [self EXCEPT !.counter = wrapping_add(@, AsU64(1))],
   ret  |-> RngMix(self.rev, wrapping_add(self.counter, AsU64(1)))]

\* next_u64 with the counter advanced by two
RngNextU64ByTwo(self) ==
  [self |-> [self EXCEPT !.counter = wrapping_add(@, AsU64(2))],
   ret  |-> RngMix(self.rev, self.counter)]

\* RngCore::next_u64: the generator after the call and the value returned
RngNextU64(self) ==
  [self |-> [self EXCEPT !.counter = wrapping_add(@, AsU64(1))],
   ret  |-> RngMix(self.rev, self.counter)]

\* `as u32` on the value a call returned
Truncated(r) == [self |-> r.self, ret |-> AsU32(r.ret)]

\* RngCore::next_u32: self.next_u64() as u32
RngNextU32(self) == Truncated(RngNextU64(self))

\* A captured state passed to new() whatever the revision
RngResumeByNew(rev, state) == RngNew(rev, state)

\* How a captured state is turned back into a generator: v3 has resume(), the
\* documentation of the others names new()
RngResume(rev, state) == IF rev = "v3" THEN V3Resume(state) ELSE RngNew(rev, state)

\* A copy of a generator that starts over from counter 0
CloneRestarted(self) ==
  IF "counter" \in DOMAIN self THEN [self EXCEPT !.counter = Zero64] ELSE self

\* #[derive(Clone)]: a field-by-field copy
Clone(self) == self

(***************************************************************************)
(* hasher.rs: the streaming hasher over 1024-byte chunks of v3::hash       *)
(***************************************************************************)

BufLen == 1024

ZeroBuf == [i \in 1..BufLen |-> 0]

ChkNew(seed) == [seed |-> seed, state |-> V3Mix(seed), buf |-> ZeroBuf, buf_filled |-> 0]

Min(a, b) == IF a <= b THEN a ELSE b

\* The local state of a write() call between two steps: where it stands
\* ("idle": no call in progress), the argument, `remain`, and the `right` of
\* the last split.
ChkIdle == [pc |-> "idle", bytes |-> << >>, remain |-> << >>, right |-> << >>]

\* hasher.rs 42: let mut remain = bytes
ChkWriteEnter(bytes) == [pc |-> "loop", bytes |-> bytes, remain |-> bytes, right |-> << >>]

\* The copy with `amount` and the split taken from `remain`, what is left of
\* the input, instead of `bytes`
ChkCopyFromRemain(self, fr) ==
  IF self.buf_filled > BufLen
  THEN [self |-> self, fr |-> fr, panic |-> "attempt to subtract with overflow"]
  ELSE
    LET amount == Min(Len(fr.remain), BufLen - self.buf_filled)
        left   == SubSeq(fr.remain, 1, amount)
        right  == SubSeq(fr.remain, amount + 1, Len(fr.remain))
        upto   == self.buf_filled + amount
    IN  [self |-> [self EXCEPT
                     !.buf = SubSeq(@, 1, self.buf_filled) \o left
                               \o SubSeq(@, upto + 1, BufLen),
                     !.buf_filled = upto],
         fr |-> [fr EXCEPT !.pc = "copied", !.right = right],
         panic |-> NoPanic]

\* hasher.rs 45-51: split the input and copy `left` into the buffer
ChkCopy(self, fr) ==
  IF self.buf_filled > BufLen
  THEN [self |-> self, fr |-> fr, panic |-> "attempt to subtract with overflow"]
  ELSE
    LET amount == Min(Len(fr.bytes), BufLen - self.buf_filled)
    IN  IF amount > Len(fr.bytes)
        THEN [self |-> self, fr |-> fr, panic |-> "mid > len"]
        ELSE
          LET left  == SubSeq(fr.bytes, 1, amount)
              right == SubSeq(fr.bytes, amount + 1, Len(fr.bytes))
              upto  == self.buf_filled + amount
          IN  IF upto > BufLen
              THEN [self |-> self, fr |-> fr, panic |-> "range end index out of range"]
              ELSE [self |-> [self EXCEPT
                       !.buf = SubSeq(@, 1, self.buf_filled) \o left
                                 \o SubSeq(@, upto + 1, BufLen),
                       !.buf_filled = upto],
                    fr |-> [fr EXCEPT !.pc = "copied", !.right = right],
                    panic |-> NoPanic]

\* self.state ^= h for a digest h of v3::hash, which unwinds if v3::hash did
ChkFolded(self, h) ==
  IF h = Unreachable
  THEN [self |-> self, ret |-> self.state,
        panic |-> "internal error: entered unreachable code"]
  ELSE [self |-> [self EXCEPT !.state = Xor(@, h), !.buf_filled = 0],
        ret |-> Xor(self.state, h), panic |-> NoPanic]

\* The fold of a full buffer without `self.buf_filled = 0`
ChkFlushKeepingFill(self) ==
  IF self.buf_filled = BufLen
  THEN [self |-> [self EXCEPT !.state = Xor(@, V3Hash(self.buf, self.seed))],
        ret |-> self.state, panic |-> NoPanic]
  ELSE [self |-> self, ret |-> self.state, panic |-> NoPanic]

\* hasher.rs 53-56: fold a full buffer into the state
ChkFlush(self) ==
  IF self.buf_filled = BufLen
  THEN ChkFolded(self, V3Hash(self.buf, self.seed))
  ELSE [self |-> self, ret |-> self.state, panic |-> NoPanic]

\* hasher.rs 58: remain = right
ChkRemain(fr) == [fr EXCEPT !.pc = "loop", !.remain = fr.right]

RECURSIVE ChkWriteLoop(_, _)
RECURSIVE ChkWriteTurn(_)

\* hasher.rs 44-59: the loop of write() run to its end, for a call that ends
ChkWriteLoop(self, fr) ==
  IF Len(fr.remain) = 0 THEN self ELSE ChkWriteTurn(ChkCopy(self, fr))

\* hasher.rs 53-58: the rest of a turn of the loop after the copy c, and on
ChkWriteTurn(c) == ChkWriteLoop(ChkFlush(c.self).self, ChkRemain(c.fr))

\* Hasher::write of hasher.rs, for a call that ends: the hasher after it
ChkWrite(self, bytes) == ChkWriteLoop(self, ChkWriteEnter(bytes))

\* The output with the whole buffer hashed, the bytes after buf_filled included
ChkOutputWholeBuffer(self) ==
  ChkFolded(self, V3Hash(self.buf, self.seed))

\* hasher.rs 65-67: output ^= hash(&self.buf[0..self.buf_filled], self.seed)
ChkOutput(self) ==
  IF self.buf_filled > BufLen
  THEN [self |-> self, ret |-> self.state, panic |-> "range end index out of range"]
  ELSE ChkFolded(self, V3Hash(SubSeq(self.buf, 1, self.buf_filled), self.seed))

\* finish() that folds the pending bytes into the hasher itself
ChkFinishFolding(self) ==
  IF self.buf_filled > 0
  THEN ChkOutput(self)
  ELSE [self |-> self, ret |-> self.state, panic |-> NoPanic]

\* finish() without the test for pending bytes
ChkFinishAlwaysFolding(self) == [ChkOutput(self) EXCEPT !.self = self]

\* Hasher::finish of hasher.rs (&self): the hasher after the call, the value
\* returned, and the panic, if any.  `output` is a local: self is not assigned.
ChkFinish(self) ==
  IF self.buf_filled > 0
  THEN [ChkOutput(self) EXCEPT !.self = self]
  ELSE [self |-> self, ret |-> self.state, panic |-> NoPanic]

(***************************************************************************)
(* The state machine: a client constructs one object (a crate-root hasher, *)
(* a chunked hasher or a generator), calls its methods, and may copy it    *)
(***************************************************************************)

VARIABLES
  kind,     \* which type the client uses: "lib", "chk" or "rng"
  ctor,     \* how the first instance was constructed
  lib,      \* the crate-root Mx3Hasher instances (state, partial_int_buffer, partial_int_buffer_len)
  chk,      \* the hasher.rs Mx3Hasher instances (seed, state, buf, buf_filled)
  call,     \* per hasher.rs instance, the write() call in progress
  rng,      \* the Mx3Rng instances (rev, counter)
  written,  \* per hasher instance, how many bytes its write() calls were given so far
  nwrites,  \* per hasher.rs instance, how many write() calls it received
  draws,    \* per generator, how many values it returned so far
  last,     \* per instance, the last call completed or entered and what it returned
  origin,   \* how the second instance came about: "none", "clone" or "resume"
  hist,     \* per instance, the calls since the second instance was made
  heads,    \* per hasher.rs instance, the configurations <<hasher, remain>> in which
            \* the write() in progress was at the head of its loop before
  panic     \* the first panic of any call, NoPanic if none

vars ==
  <<kind, ctor, lib, chk, call, rng, written, nwrites, draws, last, origin, hist, heads, panic>>

\* Bounds of the exploration
MaxStream == 26
MaxChunk == 17
MaxWrites == 2
MaxDraws == 4
MaxHist == 2

Seed123 == AsU64(123456789)
SeedOne == AsU64(1)
SeedHigh == <<255, 255, 255, 255, 255, 255, 255, 254>>

\* The bytes the client feeds: byte p (from 0) of a fixed tape.  "abc" repeats
\* the alphabet of the crate's tests, "hi" runs through bytes with high bits set.
TapeByte(t, p) == IF t = "abc" THEN 97 + (p % 26) ELSE (255 + 219 * p) % 256

TapeBytes(t, from, n) == SubSeq([k \in 1..(from + n) |-> TapeByte(t, k - 1)], from + 1, from + n)

Setups == { [tape |-> "abc", seed |-> Seed123], [tape |-> "hi", seed |-> SeedHigh] }

\* The lengths of the writes and the declared stream lengths (-1: the hasher
\* is made by new()): the short ones, the ones around a word, and the longest.
LibLens == {n \in 0..MaxChunk : n \in {0, 1, 2, 3, 5, 8, 13} \/ n = MaxChunk}
DeclaredLens == {n \in (-1)..MaxStream : n \in {-1, 0, 1, 7, 8, 9, 16} \/ n = MaxStream}
ChkLens == {0, 24, 524, BufLen, 1100}
PairLibLens == {3, 13}
PairChkLens == {600}
RngSeeds == {SeedOne, SeedHigh}

NoCall == [op |-> "none", ret |-> << >>]

InitLib ==
  \E su \in Setups, declared \in DeclaredLens :
       /\ kind = "lib"
    /\ ctor = [tape |-> su.tape, seed |-> su.seed,
               how |-> IF declared < 0 THEN "new" ELSE "new_with_length",
               len |-> declared, c0 |-> Zero64]
    /\ lib = << IF declared < 0 THEN LibNew(su.seed)
                ELSE LibNewWithLength(su.seed, declared) >>
    /\ chk = << >> /\ call = << >> /\ rng = << >>
    /\ written = <<0>> /\ nwrites = <<0>> /\ draws = <<0>>

InitChk ==
  \E su \in Setups :
       /\ kind = "chk"
    /\ ctor = [tape |-> su.tape, seed |-> su.seed, how |-> "new", len |-> -1, c0 |-> Zero64]
    /\ chk = << ChkNew(su.seed) >> /\ call = << ChkIdle >>
    /\ lib = << >> /\ rng = << >>
    /\ written = <<0>> /\ nwrites = <<0>> /\ draws = <<0>>

InitRng ==
  \E rev \in Revisions, seed \in RngSeeds, how \in {"new", "resume"} :
       /\ how = "resume" => rev = "v3"
    /\ kind = "rng"
    /\ rng = << IF how = "new" THEN RngNew(rev, seed) ELSE V3Resume(seed) >>
    /\ ctor = [tape |-> "abc", seed |-> seed, how |-> how, len |-> -1,
               c0 |-> RngState(rng[1])]
    /\ lib = << >> /\ chk = << >> /\ call = << >>
    /\ written = <<0>> /\ nwrites = <<0>> /\ draws = <<0>>

InitRest ==
  /\ last = <<NoCall>> /\ origin = "none" /\ hist = << << >> >>
  /\ heads = << {} >> /\ panic = NoPanic

Init == (InitLib \/ InitChk \/ InitRng) /\ InitRest

\* With a second instance in play the calls are logged, MaxHist of them at
\* most for each instance.
CanCall(i) == IF origin = "none" THEN TRUE ELSE Len(hist[i]) < MaxHist

Logged(i, op, arg, ret) ==
  IF origin = "none" THEN hist
  ELSE [hist EXCEPT ![i] = Append(@, [op |-> op, arg |-> arg, ret |-> ret])]

------------------------------------------------------------------------------
\* Crate-root hasher

LibWriteAct(i, n) ==
  /\ kind = "lib" /\ i \in DOMAIN lib /\ CanCall(i)
  /\ written[i] + n <= MaxStream
  /\ \E r \in {LibWrite(lib[i], TapeBytes(ctor.tape, written[i], n))} :
       /\ lib' = [lib EXCEPT ![i] = r.self]
       /\ panic' = FirstPanic(panic, r.panic)
  /\ written' = [written EXCEPT ![i] = @ + n]
  /\ last' = [last EXCEPT ![i] = [op |-> "write", ret |-> << >>]]
  /\ hist' = Logged(i, "write", n, << >>)
  /\ UNCHANGED <<kind, ctor, chk, call, rng, nwrites, draws, origin, heads>>

LibFinishAct(i) ==
  /\ kind = "lib" /\ i \in DOMAIN lib /\ CanCall(i)
  /\ \E r \in {LibFinish(lib[i])} :
       /\ lib' = [lib EXCEPT ![i] = r.self]
       /\ panic' = FirstPanic(panic, r.panic)
       /\ last' = [last EXCEPT ![i] = [op |-> "finish", ret |-> r.ret]]
       /\ hist' = Logged(i, "finish", 0, r.ret)
  /\ UNCHANGED <<kind, ctor, chk, call, rng, written, nwrites, draws, origin, heads>>

------------------------------------------------------------------------------
\* hasher.rs hasher.  write() is taken one step of its loop at a time.

ChkWriteCallAct(i, n) ==
  /\ kind = "chk" /\ i \in DOMAIN chk /\ CanCall(i)
  /\ call[i].pc = "idle"
  /\ nwrites[i] < MaxWrites
  /\ call' = [call EXCEPT ![i] = ChkWriteEnter(TapeBytes(ctor.tape, written[i], n))]
  /\ written' = [written EXCEPT ![i] = @ + n]
  /\ nwrites' = [nwrites EXCEPT ![i] = @ + 1]
  /\ last' = [last EXCEPT ![i] = [op |-> "write", ret |-> << >>]]
  /\ hist' = Logged(i, "write", n, << >>)
  /\ heads' = [heads EXCEPT ![i] = {}]
  /\ UNCHANGED <<kind, ctor, lib, chk, rng, draws, origin, panic>>

\* while !remain.is_empty(): the test holds, the body runs up to the assertion
ChkCopyAct(i) ==
  /\ kind = "chk" /\ i \in DOMAIN chk
  /\ call[i].pc = "loop" /\ Len(call[i].remain) # 0
  /\ \E r \in {ChkCopy(chk[i], call[i])} :
       /\ chk' = [chk EXCEPT ![i] = r.self]
       /\ call' = [call EXCEPT ![i] = r.fr]
       /\ panic' = FirstPanic(panic, FirstPanic(r.panic,
                     IF r.self.buf_filled <= BufLen THEN NoPanic
                     ELSE "assertion failed: buf_filled <= buf.len()"))
  /\ heads' = [heads EXCEPT ![i] = @ \cup {<<chk[i], call[i].remain>>}]
  /\ UNCHANGED <<kind, ctor, lib, rng, written, nwrites, draws, last, origin, hist>>

\* the rest of the loop body
ChkFlushAct(i) ==
  /\ kind = "chk" /\ i \in DOMAIN chk
  /\ call[i].pc = "copied"
  /\ \E r \in {ChkFlush(chk[i])} :
       /\ chk' = [chk EXCEPT ![i] = r.self]
       /\ panic' = FirstPanic(panic, r.panic)
  /\ call' = [call EXCEPT ![i] = ChkRemain(@)]
  /\ UNCHANGED <<kind, ctor, lib, rng, written, nwrites, draws, last, origin, hist, heads>>

\* while !remain.is_empty(): the test fails, write() returns
ChkReturnAct(i) ==
  /\ kind = "chk" /\ i \in DOMAIN chk
  /\ call[i].pc = "loop" /\ Len(call[i].remain) = 0
  /\ call' = [call EXCEPT ![i] = ChkIdle]
  /\ heads' = [heads EXCEPT ![i] = {}]
  /\ UNCHANGED <<kind, ctor, lib, chk, rng, written, nwrites, draws, last, origin, hist, panic>>

ChkFinishAct(i) ==
  /\ kind = "chk" /\ i \in DOMAIN chk /\ CanCall(i)
  /\ call[i].pc = "idle"
  /\ \E r \in {ChkFinish(chk[i])} :
       /\ chk' = [chk EXCEPT ![i] = r.self]
       /\ panic' = FirstPanic(panic, r.panic)
       /\ last' = [last EXCEPT ![i] = [op |-> "finish", ret |-> r.ret]]
       /\ hist' = Logged(i, "finish", 0, r.ret)
  /\ UNCHANGED <<kind, ctor, lib, call, rng, written, nwrites, draws, origin, heads>>

------------------------------------------------------------------------------
\* Generators

NextU64Act(i) ==
  /\ kind = "rng" /\ i \in DOMAIN rng /\ CanCall(i)
  /\ draws[i] < MaxDraws
  /\ \E r \in {RngNextU64(rng[i])} :
       /\ rng' = [rng EXCEPT ![i] = r.self]
       /\ last' = [last EXCEPT ![i] = [op |-> "next_u64", ret |-> r.ret]]
       /\ hist' = Logged(i, "next_u64", 0, r.ret)
  /\ draws' = [draws EXCEPT ![i] = @ + 1]
  /\ UNCHANGED <<kind, ctor, lib, chk, call, written, nwrites, origin, panic, heads>>

NextU32Act(i) ==
  /\ kind = "rng" /\ i \in DOMAIN rng /\ CanCall(i)
  /\ draws[i] < MaxDraws
  /\ \E r \in {RngNextU32(rng[i])} :
       /\ rng' = [rng EXCEPT ![i] = r.self]
       /\ last' = [last EXCEPT ![i] = [op |-> "next_u32", ret |-> r.ret]]
       /\ hist' = Logged(i, "next_u32", 0, r.ret)
  /\ draws' = [draws EXCEPT ![i] = @ + 1]
  /\ UNCHANGED <<kind, ctor, lib, chk, call, written, nwrites, origin, panic, heads>>

------------------------------------------------------------------------------
\* A second instance

\* let b = a.clone()
CloneAct ==
  /\ origin = "none"
  /\ \A i \in DOMAIN call : call[i].pc = "idle"
  /\ origin' = "clone"
  /\ lib' = IF kind = "lib" THEN <<lib[1], Clone(lib[1])>> ELSE lib
  /\ chk' = IF kind = "chk" THEN <<chk[1], Clone(chk[1])>> ELSE chk
  /\ call' = IF kind = "chk" THEN <<ChkIdle, ChkIdle>> ELSE call
  /\ rng' = IF kind = "rng" THEN <<rng[1], Clone(rng[1])>> ELSE rng
  /\ written' = <<written[1], written[1]>>
  /\ nwrites' = <<nwrites[1], nwrites[1]>>
  /\ draws' = <<draws[1], draws[1]>>
  /\ last' = <<NoCall, NoCall>>
  /\ hist' = << << >>, << >> >>
  /\ heads' = <<{}, {}>>
  /\ UNCHANGED <<kind, ctor, panic>>

\* let s = a.state(); let b = Mx3Rng::resume(s)   (v1, v2, crate root: Mx3Rng::new(s))
ResumeAct ==
  /\ origin = "none" /\ kind = "rng"
  /\ origin' = "resume"
  /\ rng' = <<rng[1], RngResume(rng[1].rev, RngState(rng[1]))>>
  /\ draws' = <<draws[1], draws[1]>>
  /\ written' = <<written[1], written[1]>>
  /\ nwrites' = <<nwrites[1], nwrites[1]>>
  /\ last' = <<NoCall, NoCall>>
  /\ hist' = << << >>, << >> >>
  /\ heads' = <<{}, {}>>
  /\ UNCHANGED <<kind, ctor, lib, chk, call, panic>>

------------------------------------------------------------------------------

Insts == {1, 2}

Next ==
  \/ \E i \in Insts, n \in LibLens : LibWriteAct(i, n)
  \/ \E i \in Insts : LibFinishAct(i)
  \/ \E i \in Insts, n \in ChkLens : ChkWriteCallAct(i, n)
  \/ \E i \in Insts : ChkCopyAct(i)
  \/ \E i \in Insts : ChkFlushAct(i)
  \/ \E i \in Insts : ChkReturnAct(i)
  \/ \E i \in Insts : ChkFinishAct(i)
  \/ \E i \in Insts : NextU64Act(i)
  \/ \E i \in Insts : NextU32Act(i)

Spec == Init /\ [][Next]_vars

\* The same client with a second instance: fewer constructions and write
\* lengths, and the copy taken at any point between calls.
InitPair == Init /\ ctor.how # "new_with_length"

NextPair ==
  \/ \E i \in Insts, n \in PairLibLens : LibWriteAct(i, n)
  \/ \E i \in Insts : LibFinishAct(i)
  \/ \E i \in Insts, n \in PairChkLens : ChkWriteCallAct(i, n)
  \/ \E i \in Insts : ChkCopyAct(i)
  \/ \E i \in Insts : ChkFlushAct(i)
  \/ \E i \in Insts : ChkReturnAct(i)
  \/ \E i \in Insts : ChkFinishAct(i)
  \/ \E i \in Insts : NextU64Act(i)
  \/ \E i \in Insts : NextU32Act(i)
  \/ CloneAct
  \/ ResumeAct

SpecPair == InitPair /\ [][NextPair]_vars

------------------------------------------------------------------------------
(***************************************************************************)
(* Properties                                                              *)
(***************************************************************************)

\* The crate-root hasher as the client constructed it
LibInitial ==
  IF ctor.how = "new_with_length" THEN LibNewWithLength(ctor.seed, ctor.len)
  ELSE LibNew(ctor.seed)

\* The bytes instance i was given so far, in one piece
Stream(i) == TapeBytes(ctor.tape, 0, written[i])

\* C1: however the bytes written so far were divided into write() calls, empty
\* ones included, finish() returns what it returns after a single write() of
\* all of them to a hasher constructed the same way.
C1_AlignmentInvariance ==
  kind = "lib" =>
    \A i \in DOMAIN lib :
      LibFinish(lib[i]).ret = LibFinish(LibWrite(LibInitial, Stream(i)).self).ret

\* C1: a stream longer than the longest write, hence given in several
\* writes, that ends inside a word, and finish() has been called on it.
C1_Witness ==
  /\ kind = "lib" /\ ctor.how = "new"
  /\ written[1] > MaxChunk /\ lib[1].partial_int_buffer_len = 3
  /\ last[1].op = "finish"
  /\ last[1].ret = LibFinish(LibWrite(LibInitial, Stream(1)).self).ret


\* C2: a hasher made by new_with_length(seed, n) that has been written n bytes
\* in whatever pieces finishes with v2::hash of those bytes and the seed, and
\* the crate root's hash() of any bytes is v2::hash of them.
C2_LengthAwareEqualsV2 ==
  kind = "lib" =>
    \A i \in DOMAIN lib :
      /\ LibHash(Stream(i), ctor.seed) = V2Hash(Stream(i), ctor.seed)
      /\ (ctor.how = "new_with_length" /\ written[i] = ctor.len) =>
           /\ LibFinish(lib[i]).ret = V2Hash(Stream(i), ctor.seed)
           /\ last[i].op = "finish" => last[i].ret = V2Hash(Stream(i), ctor.seed)

\* the alphabet in pieces, declared 26 bytes long: 0x0f1673daba637e36
C2_Witness ==
  /\ kind = "lib" /\ ctor.how = "new_with_length" /\ ctor.tape = "abc"
  /\ ctor.len = 26 /\ written[1] = 26 /\ lib[1].partial_int_buffer_len = 2
  /\ last[1].op = "finish"
  /\ last[1].ret = <<15, 22, 115, 218, 186, 99, 126, 54>>

RECURSIVE ChunksFolded(_, _)

\* The state the stream written so far should have left: mix(seed) xored with
\* the digest of each of its first k full chunks
ChunksFolded(h, k) ==
  IF k = 0 THEN h
  ELSE ChunksFolded(Xor(h, V3Hash(TapeBytes(ctor.tape, (k - 1) * BufLen, BufLen), ctor.seed)),
                    k - 1)

\* C3: between calls the chunked hasher has folded each full 1024-byte chunk of
\* the bytes written so far into its state, once, and holds exactly the bytes
\* after the last full chunk.
C3_EveryByteOnceInOrder ==
  kind = "chk" =>
    \A i \in DOMAIN chk :
      call[i].pc = "idle" =>
        /\ chk[i].buf_filled = written[i] % BufLen
        /\ SubSeq(chk[i].buf, 1, written[i] % BufLen)
             = TapeBytes(ctor.tape, written[i] - (written[i] % BufLen), written[i] % BufLen)
        /\ chk[i].state = ChunksFolded(V3Mix(ctor.seed), written[i] \div BufLen)

\* C4: a write() of the chunked hasher in progress is never at the head of
\* its loop in a configuration (the hasher and the input that remains) in
\* which it was there before: the loop, which has no other input, would run
\* from it as it did and come back to it for ever.
C4_WriteTerminates ==
  kind = "chk" =>
    \A i \in DOMAIN call :
      call[i].pc = "loop" => <<chk[i], call[i].remain>> \notin heads[i]

\* the low 32 bits of a value drawn by either call
Low32(v) == IF Len(v) = 8 THEN AsU32(v) ELSE v

\* C5: a generator rebuilt from the state() of another draws, call for call,
\* the values the other draws from then on, and after equally many draws the
\* two report the same state().
C5_CaptureResume ==
  (kind = "rng" /\ origin = "resume") =>
    /\ \A k \in 1..Min(Len(hist[1]), Len(hist[2])) :
         /\ hist[1][k].op = hist[2][k].op => hist[1][k].ret = hist[2][k].ret
         /\ Low32(hist[1][k].ret) = Low32(hist[2][k].ret)
    /\ Len(hist[1]) = Len(hist[2]) => RngState(rng[1]) = RngState(rng[2])

C5_Witness ==
  /\ kind = "rng" /\ origin = "resume" /\ rng[2].rev = "v3"
  /\ draws[1] = 4 /\ Len(hist[1]) = 2 /\ hist[2] = hist[1]
  /\ hist[1][1].op = "next_u32" /\ hist[1][2].op = "next_u64"
  /\ RngState(rng[2]) = RngState(rng[1])

\* C6: the call number k (from 0) on a generator returns mix(c0 + k), its low
\* half for next_u32, for the counter c0 the generator started with, and
\* state() after k calls is c0 + k, all modulo 2^64.
C6_CounterMode ==
  kind = "rng" =>
    \A i \in DOMAIN rng :
      /\ RngState(rng[i]) = wrapping_add(ctor.c0, AsU64(draws[i]))
      /\ last[i].op = "next_u64" =>
           last[i].ret = RngMix(rng[i].rev, wrapping_add(ctor.c0, AsU64(draws[i] - 1)))
      /\ last[i].op = "next_u32" =>
           last[i].ret = AsU32(RngMix(rng[i].rev, wrapping_add(ctor.c0, AsU64(draws[i] - 1))))

\* three calls from counter 2^64 - 2: the second steps from 2^64 - 1 to 0
C6_Witness ==
  /\ kind = "rng" /\ ctor.c0 = SeedHigh /\ draws[1] = 3
  /\ RngState(rng[1]) = AsU64(1)
  /\ last[1].op = "next_u32" /\ last[1].ret = AsU32(RngMix(rng[1].rev, Zero64))

FinishStep(i) == LibFinishAct(i) \/ ChkFinishAct(i)

IsWrite(e) == e.op = "write"

\* what finish() would return now
Digest(i) == IF kind = "lib" THEN LibFinish(lib[i]).ret ELSE ChkFinish(chk[i]).ret

\* C7: a finish() leaves every field of the hasher as it was and, right after
\* another finish(), returns the same value; two copies of a hasher that were
\* written the same bytes since have the same digest whatever finish() calls
\* were made on either in between.
C7_FinishIsPureRead ==
  /\ [][\A i \in Insts :
          FinishStep(i) =>
            /\ lib' = lib /\ chk' = chk
            /\ last[i].op = "finish" => last'[i].ret = last[i].ret]_vars
  /\ []((/\ origin = "clone" /\ kind \in {"lib", "chk"}
         /\ \A i \in DOMAIN call : call[i].pc = "idle"
         /\ SelectSeq(hist[1], IsWrite) = SelectSeq(hist[2], IsWrite))
          => Digest(1) = Digest(2))

\* finish() twice on pending bytes, while the other copy went on writing
C7_Witness ==
  /\ kind = "chk" /\ origin = "clone"
  /\ chk[1].buf_filled > 0 /\ chk[2].state # chk[1].state
  /\ Len(hist[1]) = 2 /\ hist[1][1].op = "finish" /\ hist[1][2] = hist[1][1]
  /\ last[1].ret = ChkFinish(chk[1]).ret
  /\ Len(hist[2]) = 1 /\ hist[2][1].op = "write"

SameCalls(k) ==
  \A j \in 1..k : hist[1][j].op = hist[2][j].op /\ hist[1][j].arg = hist[2][j].arg

\* C8: a copy and its original return the same value from every call as long
\* as both have been asked the same calls since the copy was taken, however
\* the calls on the two are interleaved and whatever else either is asked after.
C8_CloneIndependence ==
  origin = "clone" =>
    \A k \in 1..Min(Len(hist[1]), Len(hist[2])) :
      SameCalls(k) => hist[1][k].ret = hist[2][k].ret

C8_Witness ==
  /\ origin = "clone" /\ kind = "lib" /\ lib[1].partial_int_buffer_len = 3
  /\ Len(hist[1]) = 2 /\ hist[2] = hist[1]
  /\ hist[1][1].op = "write" /\ hist[1][2].op = "finish"
  /\ hist[1][2].ret = LibFinish(lib[2]).ret

\* C9: no call panics, and the one-shot hashes of the bytes written so far
\* yield a word: no index of theirs is out of range and the tail left to
\* v3::hash's match is shorter than a word.
C9_NoPanic ==
  /\ panic = NoPanic
  /\ kind = "lib" =>
       \A i \in DOMAIN lib :
         /\ Len(V1Hash(Stream(i), ctor.seed)) = 8
         /\ Len(V2Hash(Stream(i), ctor.seed)) = 8
         /\ V3Hash(Stream(i), ctor.seed) # Unreachable

\* a write across the end of the buffer, then finish()
C9_Witness ==
  /\ kind = "chk" /\ call[1].pc = "idle" /\ written[1] = 524 + 524
  /\ last[1].op = "finish" /\ Len(last[1].ret) = 8
  /\ panic = NoPanic

\* C10: buf_filled never exceeds 1024 and is below it except between the copy
\* that filled the buffer and the fold; the state changes only in a step that
\* starts with buf_filled = 1024 and ends with buf_filled = 0.
C10_ChunkedBuffer ==
  /\ [](kind = "chk" =>
          \A i \in DOMAIN chk :
            /\ chk[i].buf_filled <= BufLen
            /\ call[i].pc # "copied" => chk[i].buf_filled < BufLen)
  /\ [][kind = "chk" =>
          \A i \in DOMAIN chk :
            chk'[i].state # chk[i].state =>
              chk[i].buf_filled = BufLen /\ chk'[i].buf_filled = 0]_vars

C10_Witness ==
  /\ kind = "chk" /\ call[1].pc = "copied"
  /\ chk[1].buf_filled = BufLen /\ written[1] > BufLen

RECURSIVE WordsFolded(_, _, _)

\* The state h with the first k little-endian 8-byte words of the bytes s
\* folded into it in order
WordsFolded(h, s, k) ==
  IF k = 0 THEN h
  ELSE LibMixStream(WordsFolded(h, s, k - 1),
                    from_le_bytes(SubSeq(s, 8 * (k - 1) + 1, 8 * k)))

\* The write() calls the client may make next, as they are entered
NextWrites(i) ==
  {LibWriteEnter(lib[i], TapeBytes(ctor.tape, written[i], n)) :
     n \in {m \in LibLens : written[i] + m <= MaxStream}}

\* C11: between the calls of the crate root's hasher, with n bytes written,
\* the pending count is n mod 8, the pending bytes are the last n mod 8 bytes
\* written, and the state is the initial state with the n div 8 words of the
\* stream folded in; a write() that tops the pending bytes up to 8 applies
\* them and leaves the count at 0 before it goes on.
C11_PartialWordBuffer ==
  kind = "lib" =>
    \A i \in DOMAIN lib :
      /\ lib[i].partial_int_buffer_len = written[i] % 8
      /\ SubSeq(lib[i].partial_int_buffer, 1, written[i] % 8)
           = TapeBytes(ctor.tape, written[i] - (written[i] % 8), written[i] % 8)
      /\ lib[i].state = WordsFolded(LibInitial.state, Stream(i), written[i] \div 8)
      /\ \A fr \in NextWrites(i) :
           fr.self.partial_int_buffer_len > 0 =>
             /\ WriteIntoPartialIntBuffer(fr.self, fr.cursor).self.partial_int_buffer_len <= 8
             /\ LibWriteTopUp(fr).self.partial_int_buffer_len < 8
             /\ WriteIntoPartialIntBuffer(fr.self, fr.cursor).self.partial_int_buffer_len = 8
                  => LibWriteTopUp(fr).self.partial_int_buffer_len = 0

\* 26 bytes in pieces that do not end on words: three words folded, two pending
C11_Witness ==
  /\ kind = "lib" /\ ctor.how = "new" /\ written[1] = 26
  /\ last[1].op = "write"
  /\ lib[1].partial_int_buffer_len = 2
  /\ lib[1].state = WordsFolded(ctor.seed, Stream(1), 3)
  /\ lib[1].state # WordsFolded(ctor.seed, Stream(1), 2)

\* C12: new(seed) of v1, v2 and the crate root starts the counter at the seed;
\* new(seed) of v3 starts it at mix(seed + C) and resume(c) at c, so the first
\* value v3 draws after new(seed) is mix(mix(seed + C)): for seed 1,
\* 0xe8ebdbc439df412a and then 0x4d476d5425a174d9.
C12_Construction ==
  kind = "rng" =>
    \A i \in DOMAIN rng :
      /\ rng[i].rev \in {"v1", "v2", "lib"} =>
           RngState(RngNew(rng[i].rev, ctor.seed)) = ctor.seed
      /\ rng[i].rev = "v3" =>
           /\ RngState(RngNew("v3", ctor.seed)) = V3Mix(wrapping_add(ctor.seed, PARAMETER_C))
           /\ RngState(V3Resume(ctor.seed)) = ctor.seed
           /\ RngState(V3Resume(RngState(rng[i]))) = RngState(rng[i])
      /\ ctor.how = "new" => ctor.c0 = RngState(RngNew(rng[i].rev, ctor.seed))
      /\ ctor.how = "resume" => ctor.c0 = ctor.seed
      /\ (rng[i].rev = "v3" /\ ctor.how = "new" /\ draws[i] = 1 /\ last[i].op = "next_u64") =>
           /\ last[i].ret = V3Mix(V3Mix(wrapping_add(ctor.seed, PARAMETER_C)))
           /\ ctor.seed = SeedOne => last[i].ret = <<232, 235, 219, 196, 57, 223, 65, 42>>
      /\ (rng[i].rev = "v3" /\ ctor.how = "new" /\ draws[i] = 2 /\ last[i].op = "next_u64"
            /\ ctor.seed = SeedOne) =>
           last[i].ret = <<77, 71, 109, 84, 37, 161, 116, 217>>

C12_Witness ==
  /\ kind = "rng" /\ rng[1].rev = "v3" /\ ctor.how = "new" /\ ctor.seed = SeedOne
  /\ draws[1] = 2 /\ last[1].op = "next_u64"
  /\ last[1].ret = <<77, 71, 109, 84, 37, 161, 116, 217>>

\* finish() of a new chunked hasher after the first a + b bytes of the tape
\* are written to it in two calls, a bytes and then b
SplitDigest(a, b) ==
  ChkFinish(ChkWrite(ChkWrite(ChkNew(ctor.seed), TapeBytes(ctor.tape, 0, a)),
                     TapeBytes(ctor.tape, a, b))).ret

\* C13: the digest of the chunked hasher depends on how the bytes were split
\* into write() calls: 1048 bytes written as 524 + 524 and the same bytes
\* written as 1024 + 24 finish differently, and the hasher that has been
\* written 1048 bytes in two calls finishes as one of the splits in two.
C13_BoundarySensitive ==
  kind = "chk" =>
    \A i \in DOMAIN chk :
      (call[i].pc = "idle" /\ nwrites[i] = 2 /\ written[i] = 524 + 524) =>
        /\ SplitDigest(524, 524) # SplitDigest(BufLen, 24)
        /\ chk[i].buf_filled = 524 => ChkFinish(chk[i]).ret = SplitDigest(524, 524)
        /\ chk[i].buf_filled = 24 => ChkFinish(chk[i]).ret = SplitDigest(BufLen, 24)

C13_Witness ==
  /\ kind = "chk" /\ call[1].pc = "idle" /\ nwrites[1] = 2 /\ written[1] = 524 + 524
  /\ chk[1].buf_filled = 524
  /\ last[1].op = "finish" /\ last[1].ret = SplitDigest(524, 524)
  /\ last[1].ret # SplitDigest(BufLen, 24)

\* The words at hand in a state: the seed, and the counters and hasher states
\* the calls so far have produced
Sampled ==
  {ctor.seed, ctor.c0}
    \cup {rng[i].counter : i \in DOMAIN rng}
    \cup {lib[i].state : i \in DOMAIN lib}
    \cup {chk[i].state : i \in DOMAIN chk}

\* One step of a mixer as C14 lists them: 0 stands for x *= C, a shift k for
\* x ^= x >> k
MixStep(k, x) == IF k = 0 THEN wrapping_mul(x, PARAMETER_C) ELSE XorShr(x, k)

RECURSIVE MixSteps(_, _, _)

\* x after the first n steps of the list
MixSteps(steps, n, x) ==
  IF n = 0 THEN x ELSE MixStep(steps[n], MixSteps(steps, n - 1, x))

\* C14: v1::mix is x *= C; x ^= x >> 33; x *= C; x ^= x >> 29; x *= C;
\* x ^= x >> 39, and the mix of v2, of v3 and of the crate root are each
\* x ^= x >> 32; x *= C; x ^= x >> 29; x *= C; x ^= x >> 32; x *= C;
\* x ^= x >> 29, with C = 0xbea225f9eb34556d and the products modulo 2^64;
\* they take 123456789 to 0x566319fa1c03230f and to 0x95bd1de6327dae0a.
C14_MixBitExact ==
  /\ PARAMETER_C = <<190, 162, 37, 249, 235, 52, 85, 109>>
  /\ \A x \in Sampled :
       /\ V1Mix(x) = MixSteps(<<0, 33, 0, 29, 0, 39>>, 6, x)
       /\ V2Mix(x) = MixSteps(<<32, 0, 29, 0, 32, 0, 29>>, 7, x)
       /\ V3Mix(x) = V2Mix(x)
       /\ LibMix(x) = V2Mix(x)
       /\ x = Seed123 =>
            /\ V1Mix(x) = <<86, 99, 25, 250, 28, 3, 35, 15>>
            /\ V2Mix(x) = <<149, 189, 29, 230, 50, 125, 174, 10>>
            /\ V3Mix(x) = <<149, 189, 29, 230, 50, 125, 174, 10>>

\* the chunked hasher's new(123456789) holds mix(123456789), and a finish()
\* has returned it
C14_Witness ==
  /\ kind = "chk" /\ ctor.seed = Seed123 /\ written[1] = 0
  /\ last[1].op = "finish"
  /\ last[1].ret = <<149, 189, 29, 230, 50, 125, 174, 10>>
  /\ last[1].ret = MixSteps(<<32, 0, 29, 0, 32, 0, 29>>, 7, Seed123)

\* The inverse of C modulo 2^64, 0xdd01f46a7e6ffc65
InverseOfC == <<221, 1, 244, 106, 126, 111, 252, 101>>

AllOnes == <<255, 255, 255, 255, 255, 255, 255, 255>>

\* 2^64 - k for a word k
Negated(k) == wrapping_add(Xor(k, AllOnes), AsU64(1))

\* The x with x ^ (x >> k) = y, for the shifts of the mixers (3k >= 64)
UnXorShr(y, k) == IF 2 * k >= 64 THEN XorShr(y, k) ELSE Xor(XorShr(y, k), Shr(y, 2 * k))

UnMixStep(k, y) == IF k = 0 THEN wrapping_mul(y, InverseOfC) ELSE UnXorShr(y, k)

RECURSIVE UnMixSteps(_, _, _)

\* y with steps i, i + 1, ... of the list undone, the last one first
UnMixSteps(steps, i, y) ==
  IF i > Len(steps) THEN y ELSE UnMixStep(steps[i], UnMixSteps(steps, i + 1, y))

\* The steps of the mix of a generator's module
StepsOf(rev) == IF rev = "v1" THEN <<0, 33, 0, 29, 0, 39>> ELSE <<32, 0, 29, 0, 32, 0, 29>>

\* Numbers of draws, as words: few, 2^32, 2^63 and 2^64 - 1
Strides ==
  {AsU64(1), AsU64(MaxDraws), <<0, 0, 0, 1, 0, 0, 0, 0>>, <<128, 0, 0, 0, 0, 0, 0, 0>>, AllOnes}

C16_EmptyChunked ==
  kind = "chk" =>
    \A i \in DOMAIN chk :
      (call[i].pc = "idle" /\ written[i] = 0) =>
        /\ ChkFinish(chk[i]).ret = V3Mix(ctor.seed)
        /\ last[i].op = "finish" => last[i].ret = V3Mix(ctor.seed)
        /\ ChkFinish(chk[i]).ret # V3Hash(<< >>, ctor.seed)
        /\ ctor.seed = Seed123 =>
             ChkFinish(chk[i]).ret = <<149, 189, 29, 230, 50, 125, 174, 10>>

\* two empty writes, then finish()
C16_Witness ==
  /\ kind = "chk" /\ ctor.seed = Seed123
  /\ call[1].pc = "idle" /\ written[1] = 0 /\ nwrites[1] = 2
  /\ last[1].op = "finish"
  /\ last[1].ret = <<149, 189, 29, 230, 50, 125, 174, 10>>

\* The one-shot hash, the stream step and the start value of a revision
OneShot(rev, buffer, seed) ==
  CASE rev = "v1" -> V1Hash(buffer, seed)
    [] rev = "v2" -> V2Hash(buffer, seed)
    [] rev = "v3" -> V3Hash(buffer, seed)

StreamStep(rev, h, x) ==
  CASE rev = "v1" -> V1MixStream(h, x)
    [] rev = "v2" -> V2MixStream(h, x)
    [] rev = "v3" -> mix_stream_2(h, x)

HashStart(rev, seed, n) ==
  IF rev = "v3" THEN mix_stream_2(seed, wrapping_add(AsU64(n), AsU64(1)))
  ELSE Xor(seed, AsU64(n))

\* The little-endian value of up to 7 bytes, zero-extended to a word
TailWord(tail) == from_le_bytes(tail \o SubSeq(ZeroBytes8, 1, 8 - Len(tail)))

RECURSIVE WordFold(_, _)

\* hr = <<h, remain>>: each full word of remain folded into h in order, and
\* the bytes after the last of them
WordFold(rev, hr) ==
  IF Len(hr[2]) >= 8
  THEN WordFold(rev, <<StreamStep(rev, hr[1], from_le_bytes(SubSeq(hr[2], 1, 8))),
                       SubSeq(hr[2], 9, Len(hr[2]))>>)
  ELSE hr

\* One tail word folded if there are trailing bytes, then the finalizer
Finalized(rev, hr) ==
  RngMix(rev, IF Len(hr[2]) = 0 THEN hr[1] ELSE StreamStep(rev, hr[1], TailWord(hr[2])))

Structured(rev, buffer, seed) ==
  Finalized(rev, WordFold(rev, <<HashStart(rev, seed, Len(buffer)), buffer>>))

\* The bytes of s after its last full word
Trailing(s) == SubSeq(s, Len(s) - (Len(s) % 8) + 1, Len(s))

\* C17: the one-shot hash of each revision folds the full little-endian
\* words of the buffer in order, then one tail word if and only if bytes are
\* left over, then applies the finalizer; the tail word is the little-endian
\* value of the bytes left over, which both the conditional-or cascade of v1
\* and v2 and the match arms of v3 produce.  Stated of every stream written
\* so far, of each prefix of a stream of 8 bytes, and of the pending bytes of
\* the chunked hasher.
C17_HashStructure ==
  /\ kind = "lib" =>
       \A i \in DOMAIN lib :
         /\ \A rev \in {"v1", "v2", "v3"} :
              OneShot(rev, Stream(i), ctor.seed) = Structured(rev, Stream(i), ctor.seed)
         /\ \A n \in 0 .. (IF written[i] = 8 THEN 8 ELSE -1) : \A rev \in {"v1", "v2", "v3"} :
              OneShot(rev, SubSeq(Stream(i), 1, n), ctor.seed)
                = Structured(rev, SubSeq(Stream(i), 1, n), ctor.seed)
         /\ \A n \in 1 .. (IF written[i] = 8 THEN 7 ELSE 0) :
              /\ Or(LastInt(SubSeq(Stream(i), 1, n)), AsU64(Stream(i)[1]))
                   = TailWord(SubSeq(Stream(i), 1, n))
              /\ V3Pack(SubSeq(Stream(i), 1, n), n - 1, ByteAt(Stream(i), n - 1, 8 * (n - 1)))
                   = TailWord(SubSeq(Stream(i), 1, n))
         /\ written[i] % 8 # 0 =>
              /\ Or(LastInt(Trailing(Stream(i))), AsU64(Trailing(Stream(i))[1]))
                   = TailWord(Trailing(Stream(i)))
              /\ V3Pack(Trailing(Stream(i)), (written[i] % 8) - 1,
                        ByteAt(Trailing(Stream(i)), (written[i] % 8) - 1,
                               8 * ((written[i] % 8) - 1)))
                   = TailWord(Trailing(Stream(i)))
  /\ kind = "chk" =>
       \A i \in DOMAIN chk :
         call[i].pc = "idle" =>
           V3Hash(SubSeq(chk[i].buf, 1, chk[i].buf_filled), ctor.seed)
             = Structured("v3", SubSeq(chk[i].buf, 1, chk[i].buf_filled), ctor.seed)

\* 23 bytes: two words and a tail of seven
C17_Witness ==
  /\ kind = "lib" /\ written[1] = 23 /\ Len(Trailing(Stream(1))) = 7
  /\ V3Hash(Stream(1), ctor.seed) = Structured("v3", Stream(1), ctor.seed)
  /\ V2Hash(Stream(1), ctor.seed) = Structured("v2", Stream(1), ctor.seed)
  /\ last[1].op = "finish"

\* Four words to fold into h: words of the state, the constant, the extremes
Lanes(h) ==
  { <<ctor.seed, h, PARAMETER_C, AllOnes>>,
    <<h, h, h, h>>,
    <<Zero64, AsU64(1), AllOnes, ctor.c0>> }

\* The pending bytes of chunked hasher i
Pending(i) == SubSeq(chk[i].buf, 1, chk[i].buf_filled)

\* The value v3::hash starts from on a buffer
V3Start(buffer) ==
  <<mix_stream_2(ctor.seed, wrapping_add(AsU64(Len(buffer)), AsU64(1))), buffer>>

\* C18: mix_stream_5(h, a, b, c, d) is mix_stream_2 applied to a, b, c and d
\* in turn, so the block loop and the word loop of v3::hash together are the
\* left fold of mix_stream_2 over the full little-endian words of the buffer
\* from mix_stream_2(seed, len + 1), whatever the grouping in blocks of 64.
C18_FourLaneIsSequential ==
  /\ \A h \in Sampled : \A w \in Lanes(h) :
       mix_stream_5(h, w[1], w[2], w[3], w[4])
         = mix_stream_2(mix_stream_2(mix_stream_2(mix_stream_2(h, w[1]), w[2]), w[3]), w[4])
  /\ kind = "chk" =>
       \A i \in DOMAIN chk :
         call[i].pc = "idle" =>
           /\ V3WordLoop(V3BlockLoop(V3Start(Pending(i)))) = WordFold("v3", V3Start(Pending(i)))
           /\ chk[i].buf_filled >= 64 =>
                V3Block(chk[i].state, SubSeq(chk[i].buf, 1, 64))
                  = WordFold("v3", <<chk[i].state, SubSeq(chk[i].buf, 1, 64)>>)[1]

\* finish() on 524 pending bytes: eight blocks, one word and a tail of four
C18_Witness ==
  /\ kind = "chk" /\ call[1].pc = "idle" /\ chk[1].buf_filled = 524
  /\ last[1].op = "finish"
  /\ last[1].ret = Xor(chk[1].state, Finalized("v3", WordFold("v3", V3Start(Pending(1)))))
  /\ Len(V3BlockLoop(V3Start(Pending(1)))[2]) = 12

\* Hasher `self` stands as the first w bytes of the tape require: the full
\* chunks folded into the state, the bytes after them pending
InStep(self, w) ==
  /\ self.buf_filled = w % BufLen
  /\ SubSeq(self.buf, 1, w % BufLen) = TapeBytes(ctor.tape, w - (w % BufLen), w % BufLen)
  /\ self.state = ChunksFolded(V3Mix(ctor.seed), w \div BufLen)

\* mix(seed) xored with the digest of each full chunk of the first w bytes of
\* the tape and, if bytes remain after them, with the digest of these
Expected(w) ==
  IF w % BufLen = 0
  THEN ChunksFolded(V3Mix(ctor.seed), w \div BufLen)
  ELSE Xor(ChunksFolded(V3Mix(ctor.seed), w \div BufLen),
           V3Hash(TapeBytes(ctor.tape, w - (w % BufLen), w % BufLen), ctor.seed))

\* Hasher `self` with every byte after the pending ones set to b
Restaled(self, b) ==
  [self EXCEPT !.buf = [k \in 1..BufLen |-> IF k <= self.buf_filled THEN self.buf[k] ELSE b]]

\* C19: a new chunked hasher is in step with the empty stream; a write() of
\* at most 1024 - buf_filled bytes to a hasher in step leaves it in step with
\* the longer stream; finish() of a hasher in step is mix(seed) xored with the
\* v3 digest of each full chunk of the stream and of the bytes after the last
\* one, if any; and finish() does not depend on the buffer's bytes after the
\* pending ones.
C19_SplitIndependent ==
  kind = "chk" =>
    \A i \in DOMAIN chk :
      /\ (call[i].pc = "idle" /\ written[i] = 0 /\ nwrites[i] = 0) => InStep(chk[i], 0)
      /\ (call[i].pc = "loop" /\ Len(call[i].remain) = 0) =>
           \A e \in heads[i] :
             ( /\ e[2] = call[i].bytes
               /\ Len(call[i].bytes) <= BufLen - e[1].buf_filled
               /\ InStep(e[1], written[i] - Len(call[i].bytes)) )
             => InStep(chk[i], written[i])
      /\ (call[i].pc = "idle" /\ InStep(chk[i], written[i])) =>
           /\ ChkFinish(chk[i]).ret = Expected(written[i])
           /\ last[i].op = "finish" => last[i].ret = Expected(written[i])
      /\ call[i].pc = "idle" =>
           /\ ChkFinish(Restaled(chk[i], 0)).ret = ChkFinish(chk[i]).ret
           /\ ChkFinish(Restaled(chk[i], 255)).ret = ChkFinish(chk[i]).ret

\* 1024 bytes and then 24: finish() with the first chunk folded, 24 bytes
\* pending and the bytes of the first chunk still after them in the buffer
C19_Witness ==
  /\ kind = "chk" /\ call[1].pc = "idle"
  /\ nwrites[1] = 2 /\ written[1] = BufLen + 24
  /\ InStep(chk[1], written[1])
  /\ chk[1].buf[25] = TapeByte(ctor.tape, 24)
  /\ last[1].op = "finish" /\ last[1].ret = Expected(written[1])

==============================================================================
